---- MODULE Spec2Model ----
(***************************************************************************)
(* A model of util/kustomize/kustomize.go: the wrapper that drives the     *)
(* `kustomize` command-line tool.                                          *)
(*                                                                         *)
(* A Go string is modelled as a sequence of atoms (TLA+ strings): the      *)
(* empty string is << >>, concatenation is \o.  A []string is a sequence   *)
(* of such strings; a nil slice is << >>.                                  *)
(***************************************************************************)
EXTENDS Integers, Sequences, FiniteSets, TLC

\* ------------------------------------------------------------------------
\* Bounds of the model
\* ------------------------------------------------------------------------
MaxPatches == 2
MaxComponents == 2
MaxCallers == 2
MaxCalls == 2
MaxPairs == 2
MaxOps == 3
MaxObjs == 3
MaxAPIVersions == 2
MaxBuilds == 2

\* ------------------------------------------------------------------------
\* Generic helpers
\* ------------------------------------------------------------------------
Range(s) == {s[i] : i \in DOMAIN s}

\* all enumerations (without repetition) of the finite set S
Orders(S) == {s \in [1..Cardinality(S) -> S] : \A i, j \in 1..Cardinality(S) : s[i] = s[j] => i = j}

RECURSIVE Flatten(_)
Flatten(ss) == IF ss = << >> THEN << >> ELSE Head(ss) \o Flatten(Tail(ss))

\* ------------------------------------------------------------------------
\* Versions (semver.Version): <<major, minor, patch>>
\* ------------------------------------------------------------------------
LessThanOrEqual(v, w) ==
    \/ v[1] < w[1]
    \/ v[1] = w[1] /\ v[2] < w[2]
    \/ v[1] = w[1] /\ v[2] = w[2] /\ v[3] <= w[3]

LessThan(v, w) ==
    \/ v[1] < w[1]
    \/ v[1] = w[1] /\ v[2] < w[2]
    \/ v[1] = w[1] /\ v[2] = w[2] /\ v[3] < w[3]

\* semVer == nil: the cache has not been assigned
NoVersion == << >>

unknownVersion == <<99, 99, 99>>
LabelArgsVersion == <<3, 8, 5>>
ComponentsVersion == <<3, 7, 0>>
HelmFlagsVersion == <<5, 3, 0>>

\* versions a kustomize binary may report
ToolVersions == {<<3, 6, 0>>, <<3, 7, 0>>, <<3, 8, 4>>, <<3, 8, 5>>, <<5, 3, 0>>}

\* what running `<binary> version --short` may give: a failed run, text without
\* a semver-shaped substring, or text holding a version
VersionReplies ==
    {[ok |-> FALSE, match |-> FALSE, ver |-> unknownVersion],
     [ok |-> TRUE, match |-> FALSE, ver |-> unknownVersion]}
    \cup {[ok |-> TRUE, match |-> TRUE, ver |-> v] : v \in ToolVersions}

\* getSemver: the parsed version, or an error
getSemver(reply) ==
    IF ~reply.ok THEN [err |-> TRUE, ver |-> NoVersion]
    ELSE IF ~reply.match THEN [err |-> TRUE, ver |-> NoVersion]
    ELSE [err |-> FALSE, ver |-> reply.ver]

\* a fallback to the lowest version
SemverAssignedLowest(reply) ==
    IF getSemver(reply).err THEN <<0, 0, 0>> ELSE getSemver(reply).ver

\* the value getSemverSafe assigns to semVer after the query answered `reply`
SemverAssigned(reply) ==
    IF getSemver(reply).err THEN unknownVersion ELSE getSemver(reply).ver

\* ------------------------------------------------------------------------
\* Strings
\* ------------------------------------------------------------------------
\* a literal word as a Go string
Lit(a) == <<a>>

\* a list of literal words as a []string
Words(ws) == [i \in DOMAIN ws |-> <<ws[i]>>]

\* strings.Join(ss, sep)
RECURSIVE Join(_, _)
Join(ss, sep) ==
    IF ss = << >> THEN << >>
    ELSE IF Len(ss) = 1 THEN ss[1]
    ELSE ss[1] \o sep \o Join(Tail(ss), sep)

\* does string s start with string p
HasPrefix(s, p) == Len(s) >= Len(p) /\ SubSeq(s, 1, Len(p)) = p

\* strings.Contains(s, sub)
Contains(s, sub) == \E i \in 0..Len(s) : HasPrefix(SubSeq(s, i + 1, Len(s)), sub)

\* strings.ReplaceAll(s, old, new) for a non-empty old: leftmost, non-overlapping
RECURSIVE ReplaceAll(_, _, _)
ReplaceAll(s, old, new) ==
    IF s = << >> THEN << >>
    ELSE IF HasPrefix(s, old) THEN new \o ReplaceAll(SubSeq(s, Len(old) + 1, Len(s)), old, new)
    ELSE <<Head(s)>> \o ReplaceAll(Tail(s), old, new)

\* strings.Fields(s): the maximal runs of non-space atoms
RECURSIVE FieldsLoop(_, _, _)
FieldsLoop(s, cur, acc) ==
    IF s = << >> THEN (IF cur = << >> THEN acc ELSE Append(acc, cur))
    ELSE IF Head(s) = " " THEN FieldsLoop(Tail(s), << >>, IF cur = << >> THEN acc ELSE Append(acc, cur))
    ELSE FieldsLoop(Tail(s), Append(cur, Head(s)), acc)

Fields(s) == FieldsLoop(s, << >>, << >>)

\* envVars.Envsubst(s): references to the variable are replaced by its value
Envsubst(s) == [i \in DOMAIN s |-> IF s[i] = "${REV}" THEN "r1" ELSE s[i]]

\* ------------------------------------------------------------------------
\* mapToEditAddArgs
\* ------------------------------------------------------------------------
\* the loop of the branch below 3.8.5; ord is the iteration order of the map
RECURSIVE JoinedArg(_, _, _)
JoinedArg(val, ord, arg) ==
    IF ord = << >> THEN arg
    ELSE LET name == Head(ord)
             sep == IF arg # << >> THEN arg \o Lit(",") ELSE arg
         IN JoinedArg(val, Tail(ord), sep \o name \o Lit(":") \o val[name])

NeedsJoinedArgInclusive(ver) == LessThanOrEqual(ver, LabelArgsVersion)

NeedsJoinedArg(ver) == LessThan(ver, LabelArgsVersion)

mapToEditAddArgs(val, ord, ver) ==
    IF NeedsJoinedArg(ver)
    THEN <<JoinedArg(val, ord, << >>)>>
    ELSE [i \in DOMAIN ord |-> ord[i] \o Lit(":") \o val[ord[i]]]

\* ------------------------------------------------------------------------
\* State
\* ------------------------------------------------------------------------
VARIABLES
    semVer,     \* the process-wide cached version (semVer), NoVersion while nil
    k,          \* the kustomize instance of the Build call: repoRoot, path, binaryPath
    in,         \* the arguments of the Build call: opts, kustomizeOptions, buildOpts
    fs,         \* the checked out tree: the kustomization files and the component directories
    fs0,        \* history: the checked out tree when the Build call started
    semVer0,    \* history: the cached version when the Build call started
    pc,         \* the position of the Build call
    commands,   \* the local variable `commands` of Build
    trace,      \* history: the external invocations, descriptor writes and releases, in order
    ret,        \* the values Build returned
    exitAt,     \* history: the step at which Build returned
    cpc,        \* concurrent callers of getSemverSafe: the position of each
    lock,       \* semVerLock: the caller holding it, 0 when free
    local,      \* per caller: the result of getSemver it is about to assign
    synced,     \* per caller: it has observed an assignment of semVer
    calls,      \* per caller: the calls of getSemverSafe it has completed
    got,        \* per caller: the value its last call returned
    queries,    \* history: how often getSemverSafe has run the version command
    firstVer,   \* history: the first value assigned to semVer
    mapIn,      \* the map handed to mapToEditAddArgs
    mapArgs,    \* what mapToEditAddArgs returned, with the version it was given
    tree,       \* a resource object
    ops,        \* the number of construction steps that made tree
    scan,       \* the result of getImages on tree
    objects,    \* the resource objects handed to getImageParameters
    imageParams \* what getImageParameters returned for objects

\* the arguments of the Build call, which it does not change
callVars == <<k, in, fs0, semVer0>>

buildVars == <<callVars, fs, pc, commands, trace, ret, exitAt>>

callerVars == <<cpc, lock, local, synced, calls, got, queries, firstVer>>

argVars == <<mapIn, mapArgs>>

imageVars == <<tree, ops, scan, objects, imageParams>>

vars == <<semVer, buildVars, callerVars, argVars, imageVars>>

\* the variables a Build call leaves alone
notBuildVars == <<callerVars, argVars, imageVars>>

\* ------------------------------------------------------------------------
\* The kustomize instance
\* ------------------------------------------------------------------------
RepoRoot == <<"/repo">>

AppPath == <<"/repo", "/app">>

getBinaryPath(kust) == IF kust.binaryPath # << >> THEN kust.binaryPath ELSE Lit("kustomize")

\* &kustomize{}: the instance mapToEditAddArgs hands to getSemverSafe
ZeroKustomize == [repoRoot |-> << >>, path |-> << >>, binaryPath |-> << >>]

\* ------------------------------------------------------------------------
\* History events
\* ------------------------------------------------------------------------
\* an external invocation executil.Run performed for a pipeline step
ExecEv(step, bin, args, ok) == [ev |-> "exec", step |-> step, bin |-> bin, args |-> args, ok |-> ok]

\* the invocation of `<bin> version --short` by versionWithBinaryPath
VersionEv(bin, ok) ==
    [ev |-> "version", step |-> "version", bin |-> bin, args |-> Words(<<"version", "--short">>), ok |-> ok]

\* os.WriteFile on the descriptor
WriteEv(file) == [ev |-> "write", step |-> "patches", bin |-> << >>, args |-> <<file>>, ok |-> TRUE]

\* closer.Close() run by the deferred function
CloseEv == [ev |-> "close", step |-> "close", bin |-> << >>, args |-> << >>, ok |-> TRUE]

\* executil.GetCommandArgsToLog(cmd): the arguments of the command, space separated
GetCommandArgsToLog(bin, args) == Join(<<bin>> \o args, Lit(" "))

\* ------------------------------------------------------------------------
\* Errors and return values
\* ------------------------------------------------------------------------
NoErr == [kind |-> "none", step |-> "none"]

\* the error executil.Run returns for a failed invocation of `step`
RunErr(step) == [kind |-> "run", step |-> step]

CredsErr == [kind |-> "creds", step |-> "start"]
ReplicaCountErr == [kind |-> "replica count", step |-> "replicas"]
NotFoundErr == [kind |-> "kustomization file not found in the path", step |-> "patches"]
LoadErr == [kind |-> "failed to load kustomization.yaml", step |-> "patches"]
UnmarshalErr == [kind |-> "failed to unmarshal kustomization.yaml", step |-> "patches"]
NotMapErr == [kind |-> "expected kustomization.yaml to be type map[string]any", step |-> "patches"]
NotSeqErr == [kind |-> "expected 'patches' field in kustomization.yaml to be []any", step |-> "patches"]
StatErr == [kind |-> "failed to stat kustomization.yaml", step |-> "patches"]
WriteErr == [kind |-> "failed to write kustomization.yaml with updated 'patches' field", step |-> "patches"]
ComponentsErr == [kind |-> "kustomize components require kustomize v3.7.0 and above", step |-> "components"]
OpenRootErr == [kind |-> "failed to open the repo folder", step |-> "components"]
SplitErr == [kind |-> "split yaml", step |-> "build"]

\* Build has not returned
NoRet == [returned |-> FALSE, objs |-> << >>, images |-> << >>, commands |-> << >>, err |-> NoErr]

\* `return nil, nil, nil, err` handing the accumulated log back
ErrorReturnWithLog(err, log) ==
    [returned |-> TRUE, objs |-> << >>, images |-> << >>, commands |-> log, err |-> err]

\* `return nil, nil, nil, err`
ErrorReturn(err, log) ==
    [returned |-> TRUE, objs |-> << >>, images |-> << >>, commands |-> << >>, err |-> err]

\* the error of an invocation that never fails the build
RunResultIgnored(step, ok) == NoErr

\* `_, err := executil.Run(cmd); if err != nil { return nil, nil, nil, err }`
RunResult(step, ok) == IF ok THEN NoErr ELSE RunErr(step)

\* ------------------------------------------------------------------------
\* Resource objects and the image scan
\* ------------------------------------------------------------------------
\* a value of a resource tree: map[string]any, []any, or a scalar (a string)
MapVal(m) == [t |-> "map", m |-> m, s |-> << >>, a |-> << >>]
SeqVal(s) == [t |-> "seq", m |-> << >>, s |-> s, a |-> << >>]
StrVal(a) == [t |-> "str", m |-> << >>, s |-> << >>, a |-> a]

\* the keys a resource tree may use
TreeKeys == {"containers", "initContainers", "image", "spec", "sidecar"}

\* the iteration order of a map: its keys, in the order `ord` lists them
KeysInOrder(m, ord) == SelectSeq(ord, LAMBDA key : key \in DOMAIN m)

\* fmt.Sprintf("%s", image)
Sprintf(v) == IF v.t = "str" THEN v.a ELSE <<"%!s", v.t>>

IsContainersKeyTypo(key) == key = "container" \/ key = "initContainers"

IsContainersKey(key) == key = "containers" \/ key = "initContainers"

\* a scan that also descends into the elements of containers and initContainers
RECURSIVE getImagesDeep(_, _)
getImagesDeep(object, ord) ==
    LET keys == KeysInOrder(object, ord)
        OfKey(key) ==
            LET v == object[key]
            IN IF v.t = "seq"
               THEN Flatten([i \in DOMAIN v.s |->
                        (IF IsContainersKey(key) /\ v.s[i].t = "map" /\ "image" \in DOMAIN v.s[i].m
                         THEN <<Sprintf(v.s[i].m["image"])>> ELSE << >>)
                        \o (IF v.s[i].t = "map" THEN getImagesDeep(v.s[i].m, ord) ELSE << >>)])
               ELSE IF v.t = "map" THEN getImagesDeep(v.m, ord)
               ELSE << >>
    IN Flatten([i \in DOMAIN keys |-> OfKey(keys[i])])

RECURSIVE getImages(_, _)
getImages(object, ord) ==
    LET keys == KeysInOrder(object, ord)
        OfKey(key) ==
            LET v == object[key]
            IN IF v.t = "seq"
               THEN IF IsContainersKey(key)
                    THEN Flatten([i \in DOMAIN v.s |->
                            IF v.s[i].t = "map" /\ "image" \in DOMAIN v.s[i].m
                            THEN <<Sprintf(v.s[i].m["image"])>>
                            ELSE << >>])
                    ELSE Flatten([i \in DOMAIN v.s |->
                            IF v.s[i].t = "map" THEN getImages(v.s[i].m, ord) ELSE << >>])
               ELSE IF v.t = "map" THEN getImages(v.m, ord)
               ELSE << >>
    IN Flatten([i \in DOMAIN keys |-> OfKey(keys[i])])

\* the order of the atoms of image strings
Alphabet == <<"%!s", "a", "b", "c", "map", "seq">>

AtomRank(a) == CHOOSE i \in DOMAIN Alphabet : Alphabet[i] = a

\* s < t for Go strings
RECURSIVE StrLess(_, _)
StrLess(s, t) ==
    IF t = << >> THEN FALSE
    ELSE IF s = << >> THEN TRUE
    ELSE IF Head(s) = Head(t) THEN StrLess(Tail(s), Tail(t))
    ELSE AtomRank(Head(s)) < AtomRank(Head(t))

RECURSIVE Insert(_, _)
Insert(x, sorted) ==
    IF sorted = << >> THEN <<x>>
    ELSE IF StrLess(Head(sorted), x) THEN <<Head(sorted)>> \o Insert(x, Tail(sorted))
    ELSE <<x>> \o sorted

\* sort.Strings
RECURSIVE SortStrings(_)
SortStrings(ss) == IF ss = << >> THEN << >> ELSE Insert(Head(ss), SortStrings(Tail(ss)))

\* the images in the order of discovery
getImageParametersUnsorted(objs, ord) ==
    Flatten([i \in DOMAIN objs |-> getImages(objs[i], ord)])

getImageParameters(objs, ord) ==
    SortStrings(Flatten([i \in DOMAIN objs |-> getImages(objs[i], ord)]))

\* ------------------------------------------------------------------------
\* getSemverSafe, as one sequential call
\* ------------------------------------------------------------------------
\* the replies the version command may give when getSemverSafe runs it
RepliesFor(cache) ==
    IF cache = NoVersion THEN VersionReplies ELSE {[ok |-> TRUE, match |-> FALSE, ver |-> unknownVersion]}

\* the value of semVer, and the value returned, after getSemverSafe
SafeVersion(cache, reply) == IF cache = NoVersion THEN SemverAssigned(reply) ELSE cache

\* a query of the version on every call
VersionEventsAlways(cache, kust, reply) == <<VersionEv(getBinaryPath(kust), reply.ok)>>

\* the invocation getSemverSafe(kust) performs
VersionEvents(cache, kust, reply) ==
    IF cache = NoVersion THEN <<VersionEv(getBinaryPath(kust), reply.ok)>> ELSE << >>

\* ------------------------------------------------------------------------
\* The descriptor (kustomization) files
\* ------------------------------------------------------------------------
KustomizationNames == <<"kustomization.yaml", "kustomization.yml", "Kustomization">>

Absent == [t |-> "absent", m |-> << >>, s |-> << >>, a |-> << >>]
Unreadable == [t |-> "unreadable", m |-> << >>, s |-> << >>, a |-> << >>]
Invalid == [t |-> "invalid", m |-> << >>, s |-> << >>, a |-> << >>]
Partial == [t |-> "partial", m |-> << >>, s |-> << >>, a |-> << >>]
NullVal == [t |-> "null", m |-> << >>, s |-> << >>, a |-> << >>]

\* a patch of the Application manifest (v1alpha1.KustomizePatch), and an entry
\* of a `patches` sequence of the document
TypedPatch(id) == [typed |-> TRUE, id |-> id]
DocPatch(id) == [typed |-> FALSE, id |-> id]

\* yaml.Marshal of the entries of kMap["patches"]
MarshalPatches(ps) == [i \in DOMAIN ps |-> DocPatch(ps[i].id)]

\* findKustomizeFile: the index of the first name that exists, 0 for ""
findKustomizeFileLast(files) ==
    IF \A i \in DOMAIN files : files[i].t = "absent" THEN 0
    ELSE CHOOSE i \in DOMAIN files :
            files[i].t # "absent" /\ \A j \in DOMAIN files : j > i => files[j].t = "absent"

findKustomizeFile(files) ==
    IF \A i \in DOMAIN files : files[i].t = "absent" THEN 0
    ELSE CHOOSE i \in DOMAIN files :
            files[i].t # "absent" /\ \A j \in DOMAIN files : j < i => files[j].t = "absent"

\* kMap["patches"] after the merge, as yaml.Marshal writes it
MergedPatchesPrepended(m, patches) ==
    IF "patches" \in DOMAIN m
    THEN SeqVal(MarshalPatches(patches) \o MarshalPatches(m["patches"].s))
    ELSE SeqVal(MarshalPatches(patches))

MergedPatches(m, patches) ==
    IF "patches" \in DOMAIN m
    THEN SeqVal(MarshalPatches(m["patches"].s \o patches))
    ELSE SeqVal(MarshalPatches(patches))

\* the document written back
UpdatedKustomization(m, patches) ==
    MapVal([key \in DOMAIN m \cup {"patches"} |->
                IF key = "patches" THEN MergedPatches(m, patches) ELSE m[key]])

PatchesComment == Lit("# kustomization.yaml updated with patches.")

\* what the environment may do to the stat and the write of the descriptor
Faults == {"none", "stat", "open", "partial"}

\* the patch-merge block of Build: the error, the files afterwards, the events
\* and the log entries
PatchMerge(files, patches, fault) ==
    LET kustFile == findKustomizeFile(files)
        Fail(e, fl) == [err |-> e, files |-> fl, events |-> << >>, logs |-> << >>]
    IN IF kustFile = 0 THEN Fail(NotFoundErr, files)
       ELSE LET doc == files[kustFile]
            IN IF doc.t = "unreadable" THEN Fail(LoadErr, files)
               ELSE IF doc.t = "invalid" THEN Fail(UnmarshalErr, files)
               ELSE IF doc.t # "map" THEN Fail(NotMapErr, files)
               ELSE IF "patches" \in DOMAIN doc.m /\ doc.m["patches"].t # "seq"
                    THEN Fail(NotSeqErr, files)
               ELSE IF fault = "stat" THEN Fail(StatErr, files)
               ELSE IF fault = "open" THEN Fail(WriteErr, files)
               ELSE IF fault = "partial"
                    THEN Fail(WriteErr, [files EXCEPT ![kustFile] = Partial])
               ELSE [err |-> NoErr,
                     files |-> [files EXCEPT ![kustFile] = UpdatedKustomization(doc.m, patches)],
                     events |-> <<WriteEv(KustomizationNames[kustFile])>>,
                     logs |-> <<PatchesComment>>]

\* ------------------------------------------------------------------------
\* The build invocation
\* ------------------------------------------------------------------------
isHelmEnabledAlways(buildOptions) == TRUE

isHelmEnabled(buildOptions) == Contains(buildOptions, Lit("--enable-helm"))

parseKustomizeBuildOptions(kust, buildOptions, buildOpts, ver) ==
    LET buildOptsParams == <<Lit("build"), kust.path>> \o Fields(buildOptions)
    IN IF ~buildOpts.isNil /\ ~LessThan(ver, HelmFlagsVersion) /\ isHelmEnabled(buildOptions)
       THEN buildOptsParams
            \o (IF buildOpts.KubeVersion # << >>
                THEN <<Lit("--helm-kube-version"), buildOpts.KubeVersion>> ELSE << >>)
            \o Flatten([i \in DOMAIN buildOpts.APIVersions |->
                          <<Lit("--helm-api-versions"), buildOpts.APIVersions[i]>>])
       ELSE buildOptsParams

\* ------------------------------------------------------------------------
\* The inputs of a Build call
\* ------------------------------------------------------------------------
GoodReplica == [Name |-> Lit("web"), Count |-> [ok |-> TRUE, n |-> "2"]]
BadReplica == [Name |-> Lit("db"), Count |-> [ok |-> FALSE, n |-> "x"]]

PrefixInputs == {<< >>, Lit("pre-")}
SuffixInputs == {<< >>, Lit("-suf")}
ImageInputs == {<< >>, << <<"nginx", ":", "${REV}">> >>}
ReplicaInputs == {<< >>, <<GoodReplica>>, <<GoodReplica, BadReplica>>}
LabelInputs == {<< >>, (Lit("a") :> Lit("1")) @@ (Lit("b") :> Lit("${REV}"))}
AnnotationInputs == {<< >>, (Lit("c") :> Lit("${REV}"))}
NamespaceInputs == {<< >>, Lit("ns")}

PatchSeq(n) == [i \in 1..n |-> TypedPatch(i)]
ComponentSeq(n) == [i \in 1..n |-> <<"comp", ToString(i)>>]

NilOpts ==
    [isNil |-> TRUE, NamePrefix |-> << >>, NameSuffix |-> << >>, Images |-> << >>,
     Replicas |-> << >>, CommonLabels |-> << >>, CommonAnnotations |-> << >>,
     ForceCommonLabels |-> FALSE, LabelWithoutSelector |-> FALSE,
     LabelIncludeTemplates |-> FALSE, ForceCommonAnnotations |-> FALSE,
     CommonAnnotationsEnvsubst |-> FALSE, Namespace |-> << >>, Patches |-> << >>,
     Components |-> << >>, IgnoreMissingComponents |-> FALSE]

NilKustomizeOptions == [isNil |-> TRUE, BuildOptions |-> << >>]
HelmKustomizeOptions ==
    [isNil |-> FALSE, BuildOptions |-> <<"--enable-helm", " ", " ", "--load-restrictor", " ">>]

NilBuildOpts == [isNil |-> TRUE, KubeVersion |-> << >>, APIVersions |-> << >>]
SomeBuildOpts ==
    [isNil |-> FALSE, KubeVersion |-> Lit("1.30"), APIVersions |-> <<Lit("v1"), Lit("apps/v1")>>]

\* the documents a descriptor file may hold
Resources == SeqVal(<<StrVal(Lit("deploy.yaml"))>>)
DocPlain == MapVal("resources" :> Resources)
DocWithPatches == MapVal(("resources" :> Resources) @@ ("patches" :> SeqVal(<<DocPatch(8), DocPatch(9)>>)))
DocEmptyPatches == MapVal("patches" :> SeqVal(<< >>))
DocNullPatches == MapVal(("resources" :> Resources) @@ ("patches" :> NullVal))
DocStrPatches == MapVal("patches" :> StrVal(Lit("p.yaml")))
DocNotMap == SeqVal(<<StrVal(Lit("deploy.yaml"))>>)

NoFiles == <<Absent, Absent, Absent>>

\* a resource the build may print
Deployment ==
    "spec" :> MapVal("containers" :> SeqVal(<<MapVal("image" :> StrVal(Lit("b"))),
                                              MapVal("image" :> StrVal(Lit("a")))>>))

\* what SplitYAML makes of the output of the build
BuildOutputs ==
    {[ok |-> FALSE, objs |-> << >>], [ok |-> TRUE, objs |-> << >>], [ok |-> TRUE, objs |-> <<Deployment>>]}

\* the key iteration orders the scan is run with
ScanOrders ==
    {<<"containers", "image", "initContainers", "sidecar", "spec">>,
     <<"spec", "sidecar", "initContainers", "image", "containers">>}

\* ------------------------------------------------------------------------
\* The steps of Build
\* ------------------------------------------------------------------------
StepOrder ==
    <<"start", "prefix", "suffix", "images", "replicas", "labels", "annotations",
      "namespace", "patches", "components", "build", "done">>

SwappedOrder ==
    <<"start", "prefix", "suffix", "images", "replicas", "labels", "namespace",
      "annotations", "patches", "components", "build", "done">>

Rank(step) == CHOOSE i \in DOMAIN StepOrder : StepOrder[i] = step

NextStepSwapped(step) ==
    SwappedOrder[(CHOOSE i \in DOMAIN SwappedOrder : SwappedOrder[i] = step) + 1]

\* the block that follows the block of `step` in the text of Build
NextStep(step) == StepOrder[Rank(step) + 1]

\* the end of a block whose return does not release the credentials
AdvanceUnreleased(step, events, logs, err) ==
    /\ commands' = commands \o logs
    /\ IF err # NoErr
       THEN /\ pc' = "done"
            /\ ret' = ErrorReturn(err, commands')
            /\ exitAt' = step
            /\ trace' = trace \o events
       ELSE /\ pc' = NextStep(step)
            /\ ret' = ret
            /\ exitAt' = exitAt
            /\ trace' = trace \o events

\* the end of a block: Build returns err (the deferred closer.Close() runs), or
\* goes on with the next block
Advance(step, events, logs, err) ==
    /\ commands' = commands \o logs
    /\ IF err # NoErr
       THEN /\ pc' = "done"
            /\ ret' = ErrorReturn(err, commands')
            /\ exitAt' = step
            /\ trace' = trace \o events \o <<CloseEv>>
       ELSE /\ pc' = NextStep(step)
            /\ ret' = ret
            /\ exitAt' = exitAt
            /\ trace' = trace \o events

\* a block that runs its command without recording it
EditStepUnlogged(step, args) ==
    \E ok \in BOOLEAN :
        Advance(step, <<ExecEv(step, getBinaryPath(k), args, ok)>>, << >>, RunResult(step, ok))

\* a block that runs one `kustomize edit` command
EditStep(step, args) ==
    \E ok \in BOOLEAN :
        Advance(step, <<ExecEv(step, getBinaryPath(k), args, ok)>>,
                <<GetCommandArgsToLog(getBinaryPath(k), args)>>, RunResult(step, ok))

Skip(step) == Advance(step, << >>, << >>, NoErr)

\* k.creds.Environ() and `if opts != nil`
Start ==
    /\ pc = "start"
    /\ \E credsOk \in BOOLEAN :
        IF ~credsOk
        THEN /\ pc' = "done"
             /\ ret' = ErrorReturn(CredsErr, commands)
             /\ exitAt' = "start"
             /\ UNCHANGED <<commands, trace>>
        ELSE /\ pc' = IF in.opts.isNil THEN "build" ELSE NextStep("start")
             /\ UNCHANGED <<commands, trace, ret, exitAt>>
    /\ UNCHANGED <<semVer, fs, callVars, notBuildVars>>

SetNamePrefix ==
    /\ pc = "prefix"
    /\ IF in.opts.NamePrefix # << >>
       THEN EditStep("prefix", Words(<<"edit", "set", "nameprefix", "--">>) \o <<in.opts.NamePrefix>>)
       ELSE Skip("prefix")
    /\ UNCHANGED <<semVer, fs, callVars, notBuildVars>>

SetNameSuffix ==
    /\ pc = "suffix"
    /\ IF in.opts.NameSuffix # << >>
       THEN EditStep("suffix", Words(<<"edit", "set", "namesuffix", "--">>) \o <<in.opts.NameSuffix>>)
       ELSE Skip("suffix")
    /\ UNCHANGED <<semVer, fs, callVars, notBuildVars>>

SetImages ==
    /\ pc = "images"
    /\ IF Len(in.opts.Images) > 0
       THEN EditStep("images", Words(<<"edit", "set", "image">>)
                               \o [i \in DOMAIN in.opts.Images |-> Envsubst(in.opts.Images[i])])
       ELSE Skip("images")
    /\ UNCHANGED <<semVer, fs, callVars, notBuildVars>>

SetReplicas ==
    /\ pc = "replicas"
    /\ IF Len(in.opts.Replicas) > 0
       THEN IF \E i \in DOMAIN in.opts.Replicas : ~in.opts.Replicas[i].Count.ok
            THEN Advance("replicas", << >>, << >>, ReplicaCountErr)
            ELSE EditStep("replicas", Words(<<"edit", "set", "replicas">>)
                                      \o [i \in DOMAIN in.opts.Replicas |->
                                            in.opts.Replicas[i].Name \o Lit("=")
                                            \o Lit(in.opts.Replicas[i].Count.n)])
       ELSE Skip("replicas")
    /\ UNCHANGED <<semVer, fs, callVars, notBuildVars>>

\* a block that runs `kustomize edit add label|annotation`: mapToEditAddArgs asks
\* getSemverSafe(&kustomize{}) for the version
EditAddStep(step, args, val) ==
    \E ord \in Orders(DOMAIN val), reply \in RepliesFor(semVer), ok \in BOOLEAN :
        LET ver == SafeVersion(semVer, reply)
            all == args \o mapToEditAddArgs(val, ord, ver)
        IN /\ semVer' = ver
           /\ Advance(step,
                      VersionEvents(semVer, ZeroKustomize, reply)
                      \o <<ExecEv(step, getBinaryPath(k), all, ok)>>,
                      <<GetCommandArgsToLog(getBinaryPath(k), all)>>, RunResult(step, ok))

AddCommonLabels ==
    /\ pc = "labels"
    /\ IF DOMAIN in.opts.CommonLabels # {}
       THEN EditAddStep("labels",
                Words(<<"edit", "add", "label">>)
                \o (IF in.opts.ForceCommonLabels THEN <<Lit("--force")>> ELSE << >>)
                \o (IF in.opts.LabelWithoutSelector THEN <<Lit("--without-selector")>> ELSE << >>)
                \o (IF in.opts.LabelIncludeTemplates THEN <<Lit("--include-templates")>> ELSE << >>),
                [name \in DOMAIN in.opts.CommonLabels |-> Envsubst(in.opts.CommonLabels[name])])
       ELSE Skip("labels") /\ UNCHANGED semVer
    /\ UNCHANGED <<fs, callVars, notBuildVars>>

AddCommonAnnotations ==
    /\ pc = "annotations"
    /\ IF DOMAIN in.opts.CommonAnnotations # {}
       THEN EditAddStep("annotations",
                Words(<<"edit", "add", "annotation">>)
                \o (IF in.opts.ForceCommonAnnotations THEN <<Lit("--force")>> ELSE << >>),
                IF in.opts.CommonAnnotationsEnvsubst
                THEN [name \in DOMAIN in.opts.CommonAnnotations |->
                        Envsubst(in.opts.CommonAnnotations[name])]
                ELSE in.opts.CommonAnnotations)
       ELSE Skip("annotations") /\ UNCHANGED semVer
    /\ UNCHANGED <<fs, callVars, notBuildVars>>

SetNamespace ==
    /\ pc = "namespace"
    /\ IF in.opts.Namespace # << >>
       THEN EditStep("namespace", Words(<<"edit", "set", "namespace", "--">>) \o <<in.opts.Namespace>>)
       ELSE Skip("namespace")
    /\ UNCHANGED <<semVer, fs, callVars, notBuildVars>>

MergePatches ==
    /\ pc = "patches"
    /\ IF Len(in.opts.Patches) > 0
       THEN \E fault \in Faults :
                LET r == PatchMerge(fs.files, in.opts.Patches, fault)
                IN /\ fs' = [fs EXCEPT !.files = r.files]
                   /\ Advance("patches", r.events, r.logs, r.err)
       ELSE Skip("patches") /\ UNCHANGED fs
    /\ UNCHANGED <<semVer, callVars, notBuildVars>>

ComponentsSupportedAlways(ver) == TRUE

\* components only supported in kustomize >= v3.7.0
ComponentsSupported(ver) == ~LessThan(ver, ComponentsVersion)

\* the components handed to `kustomize edit add component`
foundComponents(opts, exists) ==
    IF opts.IgnoreMissingComponents
    THEN SelectSeq(opts.Components, LAMBDA c : c \in exists)
    ELSE opts.Components

AddComponents ==
    /\ pc = "components"
    /\ IF Len(in.opts.Components) > 0
       THEN \E reply \in RepliesFor(semVer), rootOk \in BOOLEAN :
                LET ver == SafeVersion(semVer, reply)
                    asked == VersionEvents(semVer, k, reply)
                    args == Words(<<"edit", "add", "component">>) \o foundComponents(in.opts, fs.comps)
                IN /\ semVer' = ver
                   /\ IF ~ComponentsSupported(ver)
                      THEN Advance("components", asked, << >>, ComponentsErr)
                      ELSE IF in.opts.IgnoreMissingComponents /\ ~rootOk
                      THEN Advance("components", asked, << >>, OpenRootErr)
                      ELSE \E ok \in BOOLEAN :
                            Advance("components",
                                    asked \o <<ExecEv("components", getBinaryPath(k), args, ok)>>,
                                    <<GetCommandArgsToLog(getBinaryPath(k), args)>>,
                                    RunResult("components", ok))
       ELSE Skip("components") /\ UNCHANGED semVer
    /\ UNCHANGED <<fs, callVars, notBuildVars>>

\* a replacement of the first occurrence only
RECURSIVE ReplaceFirst(_, _, _)
ReplaceFirst(s, old, new) ==
    IF s = << >> THEN << >>
    ELSE IF HasPrefix(s, old) THEN new \o SubSeq(s, Len(old) + 1, Len(s))
    ELSE <<Head(s)>> \o ReplaceFirst(Tail(s), old, new)

RedactedCommandsFirst(log, repoRoot) == [i \in DOMAIN log |-> ReplaceFirst(log[i], repoRoot, Lit("."))]

\* the log handed back by a successful Build
RedactedCommands(log, repoRoot) == [i \in DOMAIN log |-> ReplaceAll(log[i], repoRoot, Lit("."))]

SuccessReturn(objs, ord, log, repoRoot) ==
    [returned |-> TRUE, objs |-> objs, images |-> getImageParameters(objs, ord),
     commands |-> RedactedCommands(log, repoRoot), err |-> NoErr]

RunBuild ==
    /\ pc = "build"
    /\ \E reply \in RepliesFor(semVer), ok \in BOOLEAN, out \in BuildOutputs, ord \in ScanOrders :
        LET useOptions == ~in.kustomizeOptions.isNil /\ in.kustomizeOptions.BuildOptions # << >>
            asks == useOptions /\ ~in.buildOpts.isNil
            ver == IF asks THEN SafeVersion(semVer, reply) ELSE semVer
            params == IF useOptions
                      THEN parseKustomizeBuildOptions(k, in.kustomizeOptions.BuildOptions, in.buildOpts, ver)
                      ELSE <<Lit("build"), k.path>>
            asked == IF asks THEN VersionEvents(semVer, k, reply) ELSE << >>
            err == RunResult("build", ok)
        IN /\ semVer' = ver
           /\ commands' = Append(commands, GetCommandArgsToLog(getBinaryPath(k), params))
           /\ trace' = trace \o asked \o <<ExecEv("build", getBinaryPath(k), params, ok), CloseEv>>
           /\ pc' = "done"
           /\ exitAt' = "build"
           /\ ret' = IF err # NoErr THEN ErrorReturn(err, commands')
                     ELSE IF ~out.ok THEN ErrorReturn(SplitErr, commands')
                     ELSE SuccessReturn(out.objs, ord, commands', k.repoRoot)
    /\ UNCHANGED <<fs, callVars, notBuildVars>>

\* ------------------------------------------------------------------------
\* Specifications of one Build call
\* ------------------------------------------------------------------------
\* the values semVer may hold when a Build call starts: nil in a fresh process,
\* or what an earlier call cached
CacheInputs == {NoVersion, <<3, 6, 0>>, <<3, 8, 4>>, <<5, 3, 0>>}

Opts(prefix, suffix, images, replicas, labels, annotations, namespace, patches, components, ignore, flag) ==
    [isNil |-> FALSE, NamePrefix |-> prefix, NameSuffix |-> suffix, Images |-> images,
     Replicas |-> replicas, CommonLabels |-> labels, CommonAnnotations |-> annotations,
     ForceCommonLabels |-> flag, LabelWithoutSelector |-> flag,
     LabelIncludeTemplates |-> flag, ForceCommonAnnotations |-> flag,
     CommonAnnotationsEnvsubst |-> flag, Namespace |-> namespace, Patches |-> patches,
     Components |-> components, IgnoreMissingComponents |-> ignore]

\* the instance and the build options of a call: the plain ones, or a custom
\* binary with Helm options
Kust(custom) ==
    [repoRoot |-> RepoRoot, path |-> AppPath,
     binaryPath |-> IF custom THEN Lit("/opt/kustomize5") ELSE << >>]

Call(opts, custom) ==
    [opts |-> opts,
     kustomizeOptions |-> IF custom THEN HelmKustomizeOptions ELSE NilKustomizeOptions,
     buildOpts |-> IF custom THEN SomeBuildOpts ELSE NilBuildOpts]

\* the callers of getSemverSafe
Callers == 1..MaxCallers

NoCallers ==
    /\ cpc = [p \in Callers |-> "idle"]
    /\ lock = 0
    /\ local = [p \in Callers |-> [err |-> FALSE, ver |-> NoVersion]]
    /\ synced = [p \in Callers |-> FALSE]
    /\ calls = [p \in Callers |-> 0]
    /\ got = [p \in Callers |-> NoVersion]
    /\ queries = 0
    /\ firstVer = NoVersion

NoArgs == mapIn = << >> /\ mapArgs = [done |-> FALSE, ver |-> NoVersion, args |-> << >>]

NoScan == [done |-> FALSE, images |-> << >>]

NoImages == tree = << >> /\ ops = 0 /\ scan = NoScan /\ objects = << >> /\ imageParams = NoScan

NoBuild ==
    /\ k = Kust(FALSE)
    /\ in = Call(NilOpts, FALSE)
    /\ fs = [files |-> NoFiles, comps |-> {}]
    /\ fs0 = fs
    /\ semVer0 = NoVersion
    /\ pc = "idle"
    /\ commands = << >>
    /\ trace = << >>
    /\ ret = NoRet
    /\ exitAt = "none"

InitCall ==
    /\ fs0 = fs
    /\ semVer0 = semVer
    /\ NoCallers
    /\ NoArgs
    /\ NoImages
    /\ pc = "start"
    /\ commands = << >>
    /\ trace = << >>
    /\ ret = NoRet
    /\ exitAt = "none"

\* every combination of empty and non-empty fields
InitBuild ==
    /\ semVer \in CacheInputs
    /\ \E custom \in BOOLEAN :
        /\ k = Kust(custom)
        /\ \/ /\ in = Call(NilOpts, custom)
              /\ fs = [files |-> NoFiles, comps |-> {}]
           \/ \E prefix \in PrefixInputs, suffix \in SuffixInputs, images \in ImageInputs,
                 replicas \in ReplicaInputs, labels \in LabelInputs,
                 annotations \in AnnotationInputs, namespace \in NamespaceInputs,
                 np \in 0..MaxPatches, nc \in {0, MaxComponents} :
                /\ \E ignore \in IF nc = 0 THEN {FALSE} ELSE BOOLEAN :
                     in = Call(Opts(prefix, suffix, images, replicas, labels, annotations,
                                    namespace, PatchSeq(np), ComponentSeq(nc), ignore, custom),
                               custom)
                /\ \E files \in IF np = 0 THEN {NoFiles}
                                ELSE {NoFiles, <<DocWithPatches, Absent, Absent>>} :
                     fs = [files |-> files, comps |-> Range(ComponentSeq(nc))]
    /\ InitCall

Next ==
    \/ Start
    \/ SetNamePrefix
    \/ SetNameSuffix
    \/ SetImages
    \/ SetReplicas
    \/ AddCommonLabels
    \/ AddCommonAnnotations
    \/ SetNamespace
    \/ MergePatches
    \/ AddComponents
    \/ RunBuild

Spec == InitBuild /\ [][Next]_vars

\* the tree of a call that has patches: the descriptor files it may find
PatchFiles ==
    {NoFiles,
     <<DocPlain, Absent, Absent>>,
     <<DocWithPatches, Absent, Absent>>,
     <<DocEmptyPatches, Absent, Absent>>,
     <<DocNullPatches, Absent, Absent>>,
     <<DocStrPatches, Absent, Absent>>,
     <<DocNotMap, DocPlain, Absent>>,
     <<NullVal, Absent, Absent>>,
     <<Invalid, Absent, Absent>>,
     <<Unreadable, DocPlain, Absent>>,
     <<Absent, DocPlain, DocWithPatches>>,
     <<Absent, Absent, DocWithPatches>>,
     <<Absent, DocNotMap, DocPlain>>}

\* calls with patches, over every descriptor, and with components, over every set
\* of component directories that exist
InitPatch ==
    /\ semVer \in CacheInputs
    /\ \E custom \in BOOLEAN, prefix \in PrefixInputs, labels \in LabelInputs,
          np \in 1..MaxPatches, nc \in 0..MaxComponents, ignore \in BOOLEAN :
        /\ k = Kust(custom)
        /\ in = Call(Opts(prefix, << >>, << >>, << >>, labels, << >>, << >>,
                          PatchSeq(np), ComponentSeq(nc), ignore, custom),
                     custom)
        /\ \E files \in PatchFiles, comps \in SUBSET Range(ComponentSeq(nc)) :
             fs = [files |-> files, comps |-> comps]
    /\ InitCall

SpecPatch == InitPatch /\ [][Next]_vars

\* ------------------------------------------------------------------------
\* Properties of one Build call
\* ------------------------------------------------------------------------
\* the steps performed so far: the invocations of the pipeline and the rewrite of
\* the descriptor, without the version queries and the release
StepsPerformed == SelectSeq(trace, LAMBDA e : e.ev \in {"exec", "write"})

FixedOrder ==
    <<"prefix", "suffix", "images", "replicas", "labels", "annotations", "namespace",
      "patches", "components", "build">>

Position(step) == CHOOSE i \in DOMAIN FixedOrder : FixedOrder[i] = step

\* the field of opts that the step is for is non-empty
FieldSet(step) ==
    /\ ~in.opts.isNil
    /\ CASE step = "prefix" -> in.opts.NamePrefix # << >>
         [] step = "suffix" -> in.opts.NameSuffix # << >>
         [] step = "images" -> in.opts.Images # << >>
         [] step = "replicas" -> in.opts.Replicas # << >>
         [] step = "labels" -> DOMAIN in.opts.CommonLabels # {}
         [] step = "annotations" -> DOMAIN in.opts.CommonAnnotations # {}
         [] step = "namespace" -> in.opts.Namespace # << >>
         [] step = "patches" -> in.opts.Patches # << >>
         [] step = "components" -> in.opts.Components # << >>

Failed == ret.returned /\ ret.err # NoErr

Succeeded == ret.returned /\ ret.err = NoErr

BuildInvoked == \E i \in DOMAIN trace : trace[i].ev = "exec" /\ trace[i].step = "build"

\* C1: the steps one Build call performs occur in the order prefix, suffix, images,
\* replicas, labels, annotations, namespace, patches, components, build: the steps
\* performed are a subsequence of that order, a step is performed only if its
\* field is non-empty, and once the build invocation is made every non-empty
\* field's step has been performed exactly once before it.
C1_FixedOrder ==
    LET steps == StepsPerformed
    IN /\ \A i, j \in DOMAIN steps :
            i < j => Position(steps[i].step) < Position(steps[j].step)
       /\ \A i \in DOMAIN steps : steps[i].step # "build" => FieldSet(steps[i].step)
       /\ BuildInvoked =>
            /\ steps[Len(steps)].step = "build"
            /\ \A n \in 1..9 :
                 FieldSet(FixedOrder[n]) =>
                    Cardinality({i \in DOMAIN steps : steps[i].step = FixedOrder[n]}) = 1

C1_Witness ==
    /\ Succeeded
    /\ Len(StepsPerformed) = 10

\* C2: if the invocation of a pipeline step fails, Build returns the error of that
\* invocation unchanged and attempts nothing after it: no edit invocation, no
\* version query, no descriptor rewrite, no build invocation.
C2_FailFast ==
    \A i \in DOMAIN trace :
        (trace[i].ev = "exec" /\ ~trace[i].ok) =>
            /\ ret.returned
            /\ ret.err = [kind |-> "run", step |-> trace[i].step]
            /\ \A j \in DOMAIN trace : j > i => trace[j].ev = "close"

C2_Witness ==
    /\ \E i \in DOMAIN trace : trace[i].ev = "exec" /\ ~trace[i].ok /\ trace[i].step = "suffix"
    /\ \E i \in DOMAIN trace : trace[i].ev = "exec" /\ trace[i].ok /\ trace[i].step = "prefix"
    /\ FieldSet("patches")
    /\ FieldSet("components")
    /\ fs = fs0

\* C3 as claimed: a failed Build returns the command log accumulated so far.
C3_LogReturned == Failed => ret.commands = commands /\ ret.objs = << >> /\ ret.images = << >>

\* C3: a failed Build returns the error alone: the command log is nil like the
\* resource objects and the image list, whatever had been accumulated.
C3_LogDropped == Failed => ret.commands = << >> /\ ret.objs = << >> /\ ret.images = << >>

C3_Witness == Failed /\ Len(commands) >= 2

\* the detected version is below 3.7.0
DetectedBelow370 == semVer # NoVersion /\ (semVer[1] < 3 \/ (semVer[1] = 3 /\ semVer[2] < 7))

NoInvocationOf(steps) == \A i \in DOMAIN trace : trace[i].ev = "exec" => trace[i].step \notin steps

EarlierSteps ==
    {"start", "prefix", "suffix", "images", "replicas", "labels", "annotations", "namespace", "patches"}

\* C7 as claimed, already for the calls in which no earlier step fails: with
\* components and a detected version below 3.7.0 Build fails with the components
\* error and has performed no external invocation at all, whatever its other fields.
C7_ZeroInvocations ==
    (pc = "done" /\ FieldSet("components") /\ DetectedBelow370 /\ exitAt \notin EarlierSteps) =>
        /\ ret.err = ComponentsErr
        /\ \A i \in DOMAIN trace : trace[i].ev \notin {"exec", "version"}

\* C7: with components and a detected version below 3.7.0, a Build in which no
\* earlier step fails ends at the components step with the components error, and
\* has made neither the add-component nor the build invocation (the invocations
\* of the earlier fields have been made).
C7_ComponentsGate ==
    (pc = "done" /\ FieldSet("components") /\ DetectedBelow370 /\ exitAt \notin EarlierSteps) =>
        /\ exitAt = "components"
        /\ ret.err = ComponentsErr
        /\ NoInvocationOf({"components", "build"})
        /\ \A n \in 1..7 :
             FieldSet(FixedOrder[n]) =>
                \E i \in DOMAIN trace :
                    trace[i].ev = "exec" /\ trace[i].step = FixedOrder[n] /\ trace[i].ok

C7_Witness ==
    /\ pc = "done"
    /\ ret.err = ComponentsErr
    /\ DetectedBelow370
    /\ \E i \in DOMAIN trace : trace[i].ev = "exec" /\ trace[i].step = "prefix"
    /\ \E i \in DOMAIN trace : trace[i].ev = "version"

\* ------------------------------------------------------------------------
\* Properties of the patch-merge step
\* ------------------------------------------------------------------------
\* the descriptor the step works on: the first recognized name that exists
FirstExisting(files) ==
    CHOOSE i \in DOMAIN files : files[i].t # "absent" /\ \A j \in 1..(i - 1) : files[j].t = "absent"

Rewritten == \E i \in DOMAIN trace : trace[i].ev = "write"

\* C8: the patch-merge step rewrites the descriptor to the original top-level
\* mapping with only the `patches` key changed: a prior sequence Q becomes Q
\* followed by the new patches P in their order, a missing key becomes exactly P,
\* and every other key keeps its value.
C8_PatchesAppended ==
    Rewritten =>
        LET f == FirstExisting(fs0.files)
            old == fs0.files[f]
            new == fs.files[f]
            P == in.opts.Patches
            Q == IF "patches" \in DOMAIN old.m THEN old.m["patches"].s ELSE << >>
        IN /\ old.t = "map"
           /\ new.t = "map"
           /\ DOMAIN new.m = DOMAIN old.m \cup {"patches"}
           /\ \A key \in DOMAIN old.m \ {"patches"} : new.m[key] = old.m[key]
           /\ new.m["patches"].t = "seq"
           /\ Len(new.m["patches"].s) = Len(Q) + Len(P)
           /\ \A i \in 1..Len(Q) : new.m["patches"].s[i] = Q[i]
           /\ \A j \in 1..Len(P) : new.m["patches"].s[Len(Q) + j] = [typed |-> FALSE, id |-> P[j].id]
           /\ \A g \in DOMAIN fs.files : g # f => fs.files[g] = fs0.files[g]

C8_Witness ==
    /\ Rewritten
    /\ fs0.files[1] = DocWithPatches
    /\ Len(in.opts.Patches) = 2
    /\ Len(fs.files[1].m["patches"].s) = 4

NoneExists == \A i \in DOMAIN fs0.files : fs0.files[i].t = "absent"

NotAMapping == ~NoneExists /\ fs0.files[FirstExisting(fs0.files)].t \in {"seq", "str", "null"}

PatchesNotSequence ==
    /\ ~NoneExists
    /\ fs0.files[FirstExisting(fs0.files)].t = "map"
    /\ "patches" \in DOMAIN fs0.files[FirstExisting(fs0.files)].m
    /\ fs0.files[FirstExisting(fs0.files)].m["patches"].t # "seq"

BeforePatches ==
    {"start", "prefix", "suffix", "images", "replicas", "labels", "annotations", "namespace"}

\* what holds at every error exit of the step but the state of the descriptor
PatchExitEndsBuild ==
    /\ Failed
    /\ ~Rewritten
    /\ \A i \in DOMAIN commands : commands[i] # PatchesComment
    /\ NoInvocationOf({"components", "build"})

\* C9 as claimed: every error exit of the patch-merge step leaves the descriptor
\* file unwritten and ends the build.
C9_EveryExitUnwritten == exitAt = "patches" => fs.files = fs0.files /\ PatchExitEndsBuild

\* C9: every error exit of the patch-merge step other than a failed write leaves
\* the descriptor file unwritten, and every error exit ends the build: when no
\* recognized descriptor exists, when the top-level value is not a mapping, or
\* when `patches` is not a sequence, Build returns the error of that case, the
\* descriptor is unchanged, no synthetic entry is recorded, and neither the
\* components nor the build invocation is performed.
C9_ErrorExits ==
    /\ (pc = "done" /\ FieldSet("patches") /\ exitAt \notin BeforePatches) =>
        /\ NoneExists => exitAt = "patches" /\ ret.err = NotFoundErr
        /\ NotAMapping => exitAt = "patches" /\ ret.err = NotMapErr
        /\ PatchesNotSequence => exitAt = "patches" /\ ret.err = NotSeqErr
    /\ exitAt = "patches" =>
        /\ PatchExitEndsBuild
        /\ ret.err # WriteErr => fs.files = fs0.files

C9_Witness ==
    /\ exitAt = "patches"
    /\ PatchesNotSequence
    /\ ret.err = NotSeqErr
    /\ FieldSet("components")
    /\ \E i \in DOMAIN trace : trace[i].ev = "exec" /\ trace[i].step = "prefix"

\* ------------------------------------------------------------------------
\* Concurrent callers of getSemverSafe
\* ------------------------------------------------------------------------
notCallerVars == <<buildVars, argVars, imageVars>>

\* what the unsynchronised read `semVer == nil` of caller p may observe: a caller
\* that has not yet observed the assignment may still read nil
Visible(p) ==
    IF semVer = NoVersion THEN {NoVersion}
    ELSE IF synced[p] THEN {semVer}
    ELSE {NoVersion, semVer}

\* a caller enters getSemverSafe
Enter(p) ==
    /\ cpc[p] = "idle"
    /\ calls[p] < MaxCalls
    /\ cpc' = [cpc EXCEPT ![p] = "check"]
    /\ UNCHANGED <<semVer, lock, local, synced, calls, got, queries, firstVer, notCallerVars>>

\* `if semVer == nil`
CheckNil(p) ==
    /\ cpc[p] = "check"
    /\ \E seen \in Visible(p) :
        /\ cpc' = [cpc EXCEPT ![p] = IF seen = NoVersion THEN "lock" ELSE "return"]
        /\ synced' = [synced EXCEPT ![p] = synced[p] \/ seen # NoVersion]
    /\ UNCHANGED <<semVer, lock, local, calls, got, queries, firstVer, notCallerVars>>

\* semVerLock.Lock()
Lock(p) ==
    /\ cpc[p] = "lock"
    /\ lock = 0
    /\ lock' = p
    /\ synced' = [synced EXCEPT ![p] = synced[p] \/ semVer # NoVersion]
    /\ cpc' = [cpc EXCEPT ![p] = "query"]
    /\ UNCHANGED <<semVer, local, calls, got, queries, firstVer, notCallerVars>>

\* `ver, err := getSemver(k)`: the version command is run
Query(p) ==
    /\ cpc[p] = "query"
    /\ \E reply \in VersionReplies : local' = [local EXCEPT ![p] = getSemver(reply)]
    /\ queries' = queries + 1
    /\ cpc' = [cpc EXCEPT ![p] = "assign"]
    /\ UNCHANGED <<semVer, lock, synced, calls, got, firstVer, notCallerVars>>

\* `semVer = unknownVersion` or `semVer = ver`
Assign(p) ==
    /\ cpc[p] = "assign"
    /\ semVer' = IF local[p].err THEN unknownVersion ELSE local[p].ver
    /\ firstVer' = IF firstVer = NoVersion THEN semVer' ELSE firstVer
    /\ synced' = [synced EXCEPT ![p] = TRUE]
    /\ cpc' = [cpc EXCEPT ![p] = "return"]
    /\ UNCHANGED <<lock, local, calls, got, queries, notCallerVars>>

\* `return semVer`, and the deferred semVerLock.Unlock() of a caller that locked
Return(p) ==
    /\ cpc[p] = "return"
    /\ got' = [got EXCEPT ![p] = semVer]
    /\ lock' = IF lock = p THEN 0 ELSE lock
    /\ calls' = [calls EXCEPT ![p] = calls[p] + 1]
    /\ cpc' = [cpc EXCEPT ![p] = "idle"]
    /\ UNCHANGED <<semVer, local, synced, queries, firstVer, notCallerVars>>

InitCallers ==
    /\ semVer = NoVersion
    /\ NoCallers
    /\ NoBuild
    /\ NoArgs
    /\ NoImages

NextCallers ==
    \E p \in Callers :
        \/ Enter(p)
        \/ CheckNil(p)
        \/ Lock(p)
        \/ Query(p)
        \/ Assign(p)
        \/ Return(p)

SpecCallers == InitCallers /\ [][NextCallers]_vars

\* C4 as claimed: under any interleaving of concurrent callers of getSemverSafe
\* the version command is invoked for the cache at most once per process, and
\* once semVer has been set no caller queries again.
C4_QueriedOnce ==
    /\ queries <= 1
    /\ \A p \in Callers : cpc[p] = "query" => semVer = NoVersion

\* C5 as claimed: once semVer holds a value no call of getSemverSafe changes it.
C5_SingleAssignment == semVer # NoVersion => semVer = firstVer

\* ------------------------------------------------------------------------
\* mapToEditAddArgs on its own
\* ------------------------------------------------------------------------
LabelKeys == {Lit("a"), Lit("b"), Lit("c")}

LabelValues == {Lit("1"), <<"x", "y">>}

\* the maps of at most MaxPairs pairs
MapInputs ==
    UNION {[S -> LabelValues] : S \in {T \in SUBSET LabelKeys : Cardinality(T) <= MaxPairs}}

\* every value semVer can hold
CacheValues == {NoVersion, unknownVersion} \cup ToolVersions

InitArgs ==
    /\ semVer \in CacheValues
    /\ mapIn \in MapInputs
    /\ mapArgs = [done |-> FALSE, ver |-> NoVersion, args |-> << >>]
    /\ NoCallers
    /\ NoBuild
    /\ NoImages

\* one call of mapToEditAddArgs(mapIn)
EncodeMap ==
    /\ ~mapArgs.done
    /\ \E ord \in Orders(DOMAIN mapIn), reply \in RepliesFor(semVer) :
        LET ver == SafeVersion(semVer, reply)
        IN /\ semVer' = ver
           /\ mapArgs' = [done |-> TRUE, ver |-> ver, args |-> mapToEditAddArgs(mapIn, ord, ver)]
    /\ UNCHANGED <<mapIn, buildVars, callerVars, imageVars>>

NextArgs == EncodeMap

SpecArgs == InitArgs /\ [][NextArgs]_vars

Below385(v) ==
    \/ v[1] < 3
    \/ v[1] = 3 /\ v[2] < 8
    \/ v[1] = 3 /\ v[2] = 8 /\ v[3] < 5

PairArg(key) == key \o <<":">> \o mapIn[key]

\* C6: for a non-empty map, below 3.8.5 mapToEditAddArgs yields exactly one
\* argument, the comma-joined key:value pairs of the map in some order; at or
\* above 3.8.5, the sentinel included, it yields one argument key:value per pair;
\* either way every pair of the map is encoded exactly once and nothing else is.
C6_Encoding ==
    (mapArgs.done /\ DOMAIN mapIn # {}) =>
        IF Below385(mapArgs.ver)
        THEN /\ Len(mapArgs.args) = 1
             /\ \E ord \in Orders(DOMAIN mapIn) :
                    mapArgs.args[1] = Join([i \in DOMAIN ord |-> PairArg(ord[i])], <<",">>)
        ELSE /\ Len(mapArgs.args) = Cardinality(DOMAIN mapIn)
             /\ \A key \in DOMAIN mapIn :
                    Cardinality({i \in DOMAIN mapArgs.args : mapArgs.args[i] = PairArg(key)}) = 1

C6_Witness ==
    /\ mapArgs.done
    /\ mapArgs.ver = <<3, 8, 4>>
    /\ Cardinality(DOMAIN mapIn) = 2
    /\ Len(mapArgs.args) = 1
    /\ Len(mapArgs.args[1]) >= 7

\* ------------------------------------------------------------------------
\* getImages on its own
\* ------------------------------------------------------------------------
Elem(x) == MapVal("image" :> StrVal(Lit(x)))

\* the values a key is added with
SmallValues ==
    {StrVal(Lit("c")), Elem("a"), Elem("c"),
     SeqVal(<<Elem("a"), Elem("b")>>),
     SeqVal(<<Elem("c")>>),
     SeqVal(<<StrVal(Lit("a")), Elem("b")>>),
     SeqVal(<<MapVal("containers" :> SeqVal(<<Elem("c")>>))>>)}

InitImages ==
    /\ semVer = NoVersion
    /\ tree = << >>
    /\ ops = 0
    /\ scan = NoScan
    /\ objects = << >>
    /\ imageParams = NoScan
    /\ NoCallers
    /\ NoBuild
    /\ NoArgs

\* the construction of a resource object
AddKey ==
    /\ ~scan.done
    /\ ops < MaxOps
    /\ \E key \in TreeKeys \ DOMAIN tree, v \in SmallValues : tree' = tree @@ (key :> v)
    /\ ops' = ops + 1
    /\ UNCHANGED <<semVer, scan, objects, imageParams, buildVars, callerVars, argVars>>

WrapInMap ==
    /\ ~scan.done
    /\ ops < MaxOps
    /\ \E key \in TreeKeys : tree' = (key :> MapVal(tree))
    /\ ops' = ops + 1
    /\ UNCHANGED <<semVer, scan, objects, imageParams, buildVars, callerVars, argVars>>

WrapInSeq ==
    /\ ~scan.done
    /\ ops < MaxOps
    /\ \E key \in TreeKeys : tree' = (key :> SeqVal(<<MapVal(tree)>>))
    /\ ops' = ops + 1
    /\ UNCHANGED <<semVer, scan, objects, imageParams, buildVars, callerVars, argVars>>

\* one call of getImages(tree)
ScanTree ==
    /\ ~scan.done
    /\ \E ord \in ScanOrders : scan' = [done |-> TRUE, images |-> getImages(tree, ord)]
    /\ UNCHANGED <<semVer, tree, ops, objects, imageParams, buildVars, callerVars, argVars>>

NextImages ==
    \/ AddKey
    \/ WrapInMap
    \/ WrapInSeq
    \/ ScanTree

SpecImages == InitImages /\ [][NextImages]_vars

\* the resource has spec.containers = [{image: a}, {image: b}]
SpecContainersAB ==
    /\ "spec" \in DOMAIN tree
    /\ tree["spec"].t = "map"
    /\ "containers" \in DOMAIN tree["spec"].m
    /\ tree["spec"].m["containers"] = SeqVal(<<Elem("a"), Elem("b")>>)

\* a mapping {image: c} sits under a key other than containers/initContainers, at
\* the top level or within spec
NestedC ==
    \/ \E key \in DOMAIN tree \ {"containers", "initContainers"} : tree[key] = Elem("c")
    \/ /\ "spec" \in DOMAIN tree
       /\ tree["spec"].t = "map"
       /\ \E key \in DOMAIN tree["spec"].m \ {"containers", "initContainers"} :
            tree["spec"].m[key] = Elem("c")

\* the image strings of the mapping elements of the sequences stored under a key
\* containers or initContainers, anywhere in the tree
RECURSIVE ContainerImages(_)
ContainerImages(m) ==
    UNION {LET v == m[key]
           IN IF v.t = "seq"
              THEN (IF key \in {"containers", "initContainers"}
                    THEN {v.s[i].m["image"].a : i \in {j \in DOMAIN v.s :
                             v.s[j].t = "map" /\ "image" \in DOMAIN v.s[j].m
                             /\ v.s[j].m["image"].t = "str"}}
                    ELSE {})
                   \cup UNION {ContainerImages(v.s[i].m) : i \in {j \in DOMAIN v.s : v.s[j].t = "map"}}
              ELSE IF v.t = "map" THEN ContainerImages(v.m)
              ELSE {} : key \in DOMAIN m}

\* C10 as claimed: the scan of such a resource returns a list that contains a, b and c.
C10_AllCollected ==
    (scan.done /\ SpecContainersAB /\ NestedC) =>
        {Lit("a"), Lit("b"), Lit("c")} \subseteq Range(scan.images)

\* C10: the scan of such a resource returns a list that contains a and b; the
\* mapping {image: c} under the arbitrary key contributes nothing: c is in the
\* list only if it is also the image of a mapping element of some containers or
\* initContainers sequence.
C10_ContainersOnly ==
    (scan.done /\ SpecContainersAB /\ NestedC) =>
        /\ {Lit("a"), Lit("b")} \subseteq Range(scan.images)
        /\ Lit("c") \in Range(scan.images) => Lit("c") \in ContainerImages(tree)

C10_Witness ==
    /\ scan.done
    /\ SpecContainersAB
    /\ NestedC
    /\ Lit("c") \notin Range(scan.images)

\* ------------------------------------------------------------------------
\* getImageParameters on its own
\* ------------------------------------------------------------------------
\* the resource objects of a build
ObjectInputs ==
    {Deployment,
     "spec" :> MapVal(("containers" :> SeqVal(<<Elem("a"), Elem("a")>>))
                      @@ ("initContainers" :> SeqVal(<<Elem("c")>>))),
     ("initContainers" :> SeqVal(<<Elem("a")>>)) @@ ("containers" :> SeqVal(<<Elem("c"), Elem("b")>>)),
     ("containers" :> SeqVal(<<Elem("b")>>)) @@ ("sidecar" :> Elem("c")),
     "sidecar" :> SeqVal(<<MapVal("initContainers" :>
                                    SeqVal(<<Elem("a"), MapVal("image" :> SeqVal(<< >>))>>))>>),
     "image" :> StrVal(Lit("a"))}

ObjectLists == UNION {[1..n -> ObjectInputs] : n \in 0..MaxObjs}

InitParams ==
    /\ semVer = NoVersion
    /\ objects \in ObjectLists
    /\ imageParams = NoScan
    /\ tree = << >>
    /\ ops = 0
    /\ scan = NoScan
    /\ NoCallers
    /\ NoBuild
    /\ NoArgs

\* one call of getImageParameters(objects)
CollectImages ==
    /\ ~imageParams.done
    /\ \E ord \in ScanOrders :
        imageParams' = [done |-> TRUE, images |-> getImageParameters(objects, ord)]
    /\ UNCHANGED <<semVer, tree, ops, scan, objects, buildVars, callerVars, argVars>>

NextParams == CollectImages

SpecParams == InitParams /\ [][NextParams]_vars

\* how often x occurs in the list
Occurrences(x, list) == Cardinality({i \in DOMAIN list : list[i] = x})

\* how often x is collected from the objects, each scanned in the key order ord
RECURSIVE Referenced(_, _, _)
Referenced(x, objs, ord) ==
    IF objs = << >> THEN 0
    ELSE Occurrences(x, getImages(Head(objs), ord)) + Referenced(x, Tail(objs), ord)

ImageStrings == {Lit("a"), Lit("b"), Lit("c"), <<"%!s", "seq">>, <<"%!s", "map">>}

\* C11: the list returned by getImageParameters is lexicographically sorted and
\* is the multiset union of the images collected from each object: an image
\* referenced n times in total appears exactly n times, nothing else appears,
\* and the list does not depend on the key iteration order of the mappings.
C11_SortedMultiset ==
    imageParams.done =>
        LET r == imageParams.images
        IN /\ \A i, j \in DOMAIN r : i < j => ~StrLess(r[j], r[i])
           /\ Range(r) \subseteq ImageStrings
           /\ \A ord \in ScanOrders, x \in ImageStrings :
                Occurrences(x, r) = Referenced(x, objects, ord)

C11_Witness ==
    /\ imageParams.done
    /\ Len(objects) >= 2
    /\ objects[1] = Deployment
    /\ Occurrences(Lit("a"), imageParams.images) >= 3
    /\ Occurrences(Lit("b"), imageParams.images) >= 1

\* ------------------------------------------------------------------------
\* The build invocation on its own
\* ------------------------------------------------------------------------
\* kustomizeOptions.BuildOptions: empty, blank, with and without the Helm flag,
\* and with the flag inside a longer word
BuildOptionTexts ==
    {<< >>,
     <<" ", " ">>,
     <<"--enable-helm">>,
     <<"--enable-helm", " ", " ", "--load-restrictor", " ">>,
     <<" ", "--load-restrictor", " ", "LoadRestrictionsNone">>,
     <<"--enable-helm", "=false", " ", "--enable-alpha-plugins">>}

KustomizeOptionInputs ==
    {NilKustomizeOptions} \cup {[isNil |-> FALSE, BuildOptions |-> t] : t \in BuildOptionTexts}

APIVersionLists == UNION {[1..n -> {Lit("v1"), Lit("apps/v1")}] : n \in 0..MaxAPIVersions}

BuildOptsInputs ==
    {NilBuildOpts}
    \cup {[isNil |-> FALSE, KubeVersion |-> kv, APIVersions |-> av] :
            kv \in {<< >>, Lit("1.30")}, av \in APIVersionLists}

\* Build calls without opts, over every build option and every cached version
InitBuildArgs ==
    /\ semVer \in CacheValues
    /\ \E custom \in BOOLEAN : k = Kust(custom)
    /\ \E ko \in KustomizeOptionInputs, bo \in BuildOptsInputs :
        in = [opts |-> NilOpts, kustomizeOptions |-> ko, buildOpts |-> bo]
    /\ fs = [files |-> NoFiles, comps |-> {}]
    /\ InitCall

NextBuildArgs ==
    \/ Start
    \/ RunBuild

SpecBuildArgs == InitBuildArgs /\ [][NextBuildArgs]_vars

\* the whitespace-separated tokens of a text: its maximal runs of non-blank atoms
Tokens(text) ==
    LET starts == {i \in DOMAIN text : text[i] # " " /\ (i = 1 \/ text[i - 1] = " ")}
        First(n) == CHOOSE i \in starts : Cardinality({j \in starts : j < i}) = n - 1
        Last(i) == CHOOSE j \in i..Len(text) :
                    /\ \A h \in i..j : text[h] # " "
                    /\ (j = Len(text) \/ text[j + 1] = " ")
    IN [n \in 1..Cardinality(starts) |-> SubSeq(text, First(n), Last(First(n)))]

AtLeast530(v) == v[1] > 5 \/ (v[1] = 5 /\ v[2] >= 3)

\* the Helm flags of BuildOpts: the Kubernetes version when set, then every API version
HelmFlags(bo) ==
    LET kube == IF bo.KubeVersion # << >> THEN <<Lit("--helm-kube-version"), bo.KubeVersion>> ELSE << >>
        api(n) == IF n % 2 = 1 THEN Lit("--helm-api-versions") ELSE bo.APIVersions[n \div 2]
    IN kube \o [n \in 1..(2 * Len(bo.APIVersions)) |-> api(n)]

\* C12: the arguments of the build invocation are `build <path>` when there is no
\* build-options text; otherwise `build <path>`, the whitespace-separated tokens
\* of the text, and then the Helm flags exactly when BuildOpts is supplied, the
\* detected version is at least 5.3.0 and the text contains --enable-helm: the
\* Kubernetes-version flag only when set, then one API-version flag per API
\* version, in order.
C12_BuildArguments ==
    \A i \in DOMAIN trace :
        (trace[i].ev = "exec" /\ trace[i].step = "build") =>
            LET text == in.kustomizeOptions.BuildOptions
                plain == <<Lit("build"), k.path>>
            IN IF in.kustomizeOptions.isNil \/ text = << >>
               THEN trace[i].args = plain
               ELSE IF ~in.buildOpts.isNil /\ AtLeast530(semVer) /\ "--enable-helm" \in Range(text)
               THEN trace[i].args = plain \o Tokens(text) \o HelmFlags(in.buildOpts)
               ELSE trace[i].args = plain \o Tokens(text)

C12_Witness ==
    /\ \E i \in DOMAIN trace :
        /\ trace[i].step = "build"
        /\ Len(trace[i].args) = 10
        /\ trace[i].args[4] = Lit("--load-restrictor")
        /\ trace[i].args[5] = Lit("--helm-kube-version")
        /\ trace[i].args[10] = Lit("apps/v1")
    /\ semVer0 = NoVersion
    /\ semVer = <<5, 3, 0>>

\* ------------------------------------------------------------------------
\* Properties of the returned command log
\* ------------------------------------------------------------------------
\* the external invocations of the call and the rewrite of the descriptor
Invocations == SelectSeq(trace, LAMBDA e : e.ev \in {"exec", "version", "write"})

\* the entry that records an event: the command line with the repository root
\* shown as `.`, or the synthetic entry of the rewrite
EntryOf(e) ==
    IF e.ev = "write" THEN PatchesComment
    ELSE LET line == Join(<<e.bin>> \o e.args, <<" ">>)
         IN [j \in DOMAIN line |-> IF <<line[j]>> = k.repoRoot THEN "." ELSE line[j]]

NoPatchesNoComponents == in.opts.Patches = << >> /\ in.opts.Components = << >>

\* the build invocation has not been reached: every event is one of the pipeline
BeforeBuild == exitAt # "build"

External == {i \in DOMAIN trace : trace[i].ev \in {"exec", "version"}}

NonEmptyFields == Cardinality({n \in 1..7 : FieldSet(FixedOrder[n])})

LabelsOrAnnotations == FieldSet("labels") \/ FieldSet("annotations")

\* C14 as claimed: without patches and components, from any state of the version
\* cache, the external invocations made before the build invocation never
\* outnumber the non-empty fields.
C14_OnePerField ==
    (NoPatchesNoComponents /\ BeforeBuild) => Cardinality(External) <= NonEmptyFields

\* C14: without patches and components the pipeline runs at most one edit command
\* per non-empty field and none for an empty one; from a set cache nothing else
\* is invoked; from an unset cache the first of the labels and annotations steps
\* also runs the version query, once, so the invocations before the build
\* invocation number at most the non-empty fields plus one.
C14_OnePerFieldAndQuery ==
    (NoPatchesNoComponents /\ BeforeBuild) =>
        /\ \A n \in 1..7 :
             Cardinality({i \in External : trace[i].step = FixedOrder[n]})
                <= (IF FieldSet(FixedOrder[n]) THEN 1 ELSE 0)
        /\ \A i \in External :
             trace[i].ev = "version" =>
                /\ semVer0 = NoVersion
                /\ LabelsOrAnnotations
                /\ i < Len(trace)
                /\ trace[i + 1].ev = "exec"
                /\ trace[i + 1].step \in {"labels", "annotations"}
        /\ Cardinality({i \in External : trace[i].ev = "version"}) <= 1
        /\ semVer0 # NoVersion => Cardinality(External) <= NonEmptyFields
        /\ Cardinality(External) <= NonEmptyFields + 1

C14_Witness ==
    /\ NoPatchesNoComponents
    /\ pc = "build"
    /\ semVer0 = NoVersion
    /\ NonEmptyFields = 2
    /\ FieldSet("labels")
    /\ FieldSet("annotations")
    /\ Cardinality(External) = 3

\* ------------------------------------------------------------------------
\* Failed version detection
\* ------------------------------------------------------------------------
\* the version was not cached, and the query of this call failed or its output
\* held no version: no binary reports 99.99.99
DetectionFailed == semVer0 = NoVersion /\ semVer = unknownVersion

ExecOf(step) == {i \in DOMAIN trace : trace[i].ev = "exec" /\ trace[i].step = step}

\* the arguments with which a map is encoded one argument per pair
PairArgs(val) == {name \o <<":">> \o val[name] : name \in DOMAIN val}

LabelsGiven == [name \in DOMAIN in.opts.CommonLabels |-> Envsubst(in.opts.CommonLabels[name])]

AnnotationsGiven ==
    IF in.opts.CommonAnnotationsEnvsubst
    THEN [name \in DOMAIN in.opts.CommonAnnotations |-> Envsubst(in.opts.CommonAnnotations[name])]
    ELSE in.opts.CommonAnnotations

\* the arguments after the flags, which start with "--"
PairsOf(args) == {args[j] : j \in {h \in 4..Len(args) : ~HasPrefix(args[h], <<"--force">>)
                                                       /\ ~HasPrefix(args[h], <<"--without-selector">>)
                                                       /\ ~HasPrefix(args[h], <<"--include-templates">>)}}

\* C15: version detection never fails a build: after a failed version invocation,
\* or one whose output holds no version, the version in use is the sentinel
\* 99.99.99 and Build does not return an error of the detection; with the
\* sentinel labels and annotations are encoded one argument per pair, components
\* are accepted, and the Helm flags are given when the options ask for them.
C15_SentinelSupportsAll ==
    /\ \A i \in DOMAIN trace : (trace[i].ev = "version" /\ ~trace[i].ok) => semVer = unknownVersion
    /\ (\E i \in DOMAIN trace : trace[i].ev = "version") => semVer # NoVersion
    /\ Failed =>
        /\ ret.err.step # "version"
        /\ ret.err.kind = "run" => \E i \in ExecOf(ret.err.step) : ~trace[i].ok
    /\ DetectionFailed =>
        /\ \A i \in ExecOf("labels") : PairsOf(trace[i].args) = PairArgs(LabelsGiven)
        /\ \A i \in ExecOf("annotations") : PairsOf(trace[i].args) = PairArgs(AnnotationsGiven)
        /\ ret.err # ComponentsErr
        /\ (pc = "done" /\ FieldSet("components") /\ exitAt \notin EarlierSteps /\ ret.err # OpenRootErr)
                => ExecOf("components") # {}
        /\ \A i \in ExecOf("build") :
             (~in.buildOpts.isNil /\ ~in.kustomizeOptions.isNil
              /\ "--enable-helm" \in Range(in.kustomizeOptions.BuildOptions))
                => /\ Lit("--helm-kube-version") \in Range(trace[i].args)
                   /\ Lit("--helm-api-versions") \in Range(trace[i].args)

C15_Witness ==
    /\ Succeeded
    /\ DetectionFailed
    /\ \E i \in DOMAIN trace : trace[i].ev = "version" /\ trace[i].ok
    /\ ExecOf("labels") # {}
    /\ ExecOf("components") # {}
    /\ \E i \in ExecOf("build") : Lit("--helm-kube-version") \in Range(trace[i].args)

\* ------------------------------------------------------------------------
\* The release of the credentials
\* ------------------------------------------------------------------------
Releases == {i \in DOMAIN trace : trace[i].ev = "close"}

\* C16: once credential resolution has succeeded, every return of Build, the
\* successful one and the failure at any step, releases the handle exactly once
\* and after the last external invocation of the call, and not before Build
\* returns; when credential resolution fails Build returns its error and has
\* performed no external invocation.
C16_ReleasedOnce ==
    /\ pc # "done" => Releases = {}
    /\ (pc = "done" /\ exitAt # "start") =>
        /\ Releases = {Len(trace)}
        /\ ret.returned
    /\ (pc = "done" /\ exitAt = "start") =>
        /\ ret.err = CredsErr
        /\ trace = << >>

C16_Witness ==
    /\ pc = "done"
    /\ exitAt = "annotations"
    /\ Failed
    /\ Len(trace) >= 5
    /\ trace[Len(trace)].ev = "close"
    /\ trace[Len(trace) - 1].ev = "exec"
    /\ ~trace[Len(trace) - 1].ok

\* ------------------------------------------------------------------------
\* The redaction of the command log
\* ------------------------------------------------------------------------
\* repository roots: one path element, two, and one that overlaps itself
RootInputs == {<<"/repo">>, <<"/tmp", "/repo">>, <<"/r", "/r">>}

\* name prefixes that mention a root nowhere, once, twice, and in part
RootPrefixes(root) ==
    {<< >>, root, <<"x">> \o root \o root, <<"/r", "/r", "/r">>, <<"/tmp", "/tmp", "/repo">>}

\* Build calls whose arguments mention the repository root at many places
InitRedact ==
    /\ semVer \in {NoVersion, <<5, 3, 0>>}
    /\ \E root \in RootInputs :
        /\ \E bin \in {<< >>, root \o <<"/kustomize">>} :
             k = [repoRoot |-> root, path |-> root \o <<"/app">>, binaryPath |-> bin]
        /\ \E prefix \in RootPrefixes(root), images \in ImageInputs, labels \in LabelInputs,
              np \in 0..1, withComponents \in BOOLEAN, withOptions \in BOOLEAN :
            /\ in = [opts |-> Opts(prefix, << >>, images, << >>, labels, << >>, << >>, PatchSeq(np),
                                   IF withComponents THEN <<root \o <<"/c1">>, <<"c2">>>> ELSE << >>,
                                   FALSE, FALSE),
                     kustomizeOptions |->
                        IF withOptions
                        THEN [isNil |-> FALSE, BuildOptions |-> <<"--load-restrictor", " ">> \o root]
                        ELSE NilKustomizeOptions,
                     buildOpts |-> NilBuildOpts]
            /\ fs = [files |-> <<DocPlain, Absent, Absent>>, comps |-> {}]
    /\ InitCall

SpecRedact == InitRedact /\ [][Next]_vars

\* the positions at which the repository root occurs in an entry
Occurs(c) == {j \in 1..(Len(c) - Len(k.repoRoot) + 1) : SubSeq(c, j, j + Len(k.repoRoot) - 1) = k.repoRoot}

\* the entry with the occurrences at the positions P replaced by `.`
Replaced(c, P) ==
    Flatten([j \in DOMAIN c |->
                IF j \in P THEN <<".">>
                ELSE IF \E h \in P : h < j /\ j < h + Len(k.repoRoot) THEN << >>
                ELSE <<c[j]>>])

\* r is c with every occurrence of the repository root replaced: the replaced
\* occurrences are disjoint, and no occurrence is left beside them
Redacts(c, r) ==
    \E P \in SUBSET Occurs(c) :
        /\ \A h, j \in P : h < j => h + Len(k.repoRoot) <= j
        /\ \A j \in Occurs(c) : \E h \in P : h - Len(k.repoRoot) < j /\ j < h + Len(k.repoRoot)
        /\ r = Replaced(c, P)

\* C17: the log returned by a successful Build has the entries of the recorded
\* log, as many and in the same order, each with every occurrence of the
\* repository root, wherever it is, replaced by `.`; an entry that does not
\* mention the repository root is returned unchanged.
C17_Redaction ==
    Succeeded =>
        /\ Len(ret.commands) = Len(commands)
        /\ \A i \in DOMAIN commands :
            /\ Redacts(commands[i], ret.commands[i])
            /\ Occurs(commands[i]) = {} => ret.commands[i] = commands[i]

C17_Witness ==
    /\ Succeeded
    /\ k.repoRoot = <<"/tmp", "/repo">>
    /\ \E i \in DOMAIN commands : Cardinality(Occurs(commands[i])) >= 3
    /\ \E i \in DOMAIN commands : Occurs(commands[i]) = {} /\ ret.commands[i] = commands[i]
    /\ Len(commands) >= 5

\* ------------------------------------------------------------------------
\* The reference traversal of the image scan
\* ------------------------------------------------------------------------
RECURSIVE CollectedIn(_, _), CollectedUnder(_, _, _), CollectedInElements(_, _)

\* how often the reference traversal collects the string x from the mapping m
CollectedIn(x, m) == CollectedUnder(x, m, DOMAIN m)

\* the same, for the keys of m in the set keys
CollectedUnder(x, m, keys) ==
    IF keys = {} THEN 0
    ELSE LET key == CHOOSE key \in keys : TRUE
             v == m[key]
             here ==
                IF v.t = "seq" /\ key \in {"containers", "initContainers"}
                THEN Cardinality({j \in DOMAIN v.s :
                        /\ v.s[j].t = "map"
                        /\ "image" \in DOMAIN v.s[j].m
                        /\ Sprintf(v.s[j].m["image"]) = x})
                ELSE IF v.t = "seq" THEN CollectedInElements(x, v.s)
                ELSE IF v.t = "map" THEN CollectedIn(x, v.m)
                ELSE 0
         IN here + CollectedUnder(x, m, keys \ {key})

\* the same, for the mapping elements of a sequence that is recursed into
CollectedInElements(x, s) ==
    IF s = << >> THEN 0
    ELSE (IF Head(s).t = "map" THEN CollectedIn(x, Head(s).m) ELSE 0) + CollectedInElements(x, Tail(s))

\* C18: the scan is path-dependent and equals the reference traversal on every
\* tree: under a sequence-valued key containers or initContainers the image of
\* each mapping element is collected and the element is not entered; under any
\* other sequence-valued key each mapping element is entered; every mapping
\* value, also under containers or initContainers, is entered.  Every string is
\* collected as often as the reference traversal collects it.
C18_ReferenceTraversal ==
    scan.done =>
        /\ Range(scan.images) \subseteq ImageStrings
        /\ \A x \in ImageStrings : Occurrences(x, scan.images) = CollectedIn(x, tree)

C18_Witness ==
    /\ scan.done
    /\ DOMAIN tree = {"containers", "initContainers"}
    /\ tree["containers"] = MapVal("containers" :> SeqVal(<<Elem("a"), Elem("b")>>))
    /\ tree["initContainers"] = SeqVal(<<MapVal("containers" :> SeqVal(<<Elem("c")>>))>>)
    /\ Range(scan.images) = {Lit("a"), Lit("b")}

\* ------------------------------------------------------------------------
\* The paths of the add-component invocation
\* ------------------------------------------------------------------------
\* the supplied components that exist under the repository root, in their order
Existing == SelectSeq(in.opts.Components, LAMBDA c : c \in fs.comps)

\* C19 as claimed: the add-component invocation always carries at least one
\* component path; with skip-missing the paths passed are exactly the supplied
\* components that exist, in their supplied order, and when none of them exists
\* no add-component invocation is performed and the build goes on to the build
\* invocation.
C19_AtLeastOnePath ==
    /\ \A i \in ExecOf("components") :
        /\ Len(trace[i].args) >= 4
        /\ in.opts.IgnoreMissingComponents => SubSeq(trace[i].args, 4, Len(trace[i].args)) = Existing
    /\ (/\ pc = "done"
        /\ FieldSet("components")
        /\ in.opts.IgnoreMissingComponents
        /\ Existing = << >>
        /\ exitAt \notin EarlierSteps
        /\ ret.err \notin {ComponentsErr, OpenRootErr})
            => ExecOf("components") = {} /\ BuildInvoked

\* ------------------------------------------------------------------------
\* Successive Build calls of one process
\* ------------------------------------------------------------------------
\* history: a Build call of an instance with the binary `bin` starts
CallEv(bin) == [ev |-> "call", step |-> "call", bin |-> bin, args |-> << >>, ok |-> TRUE]

\* the opts of the calls: labels, annotations, components, or none of them
ProcessOpts(custom) ==
    {Opts(<< >>, << >>, << >>, << >>, labels, annotations, << >>, << >>, ComponentSeq(nc), FALSE, custom) :
        labels \in LabelInputs, annotations \in AnnotationInputs, nc \in {0, 1}}

\* a fresh process: semVer is nil when the first call starts
InitProcess ==
    /\ semVer = NoVersion
    /\ semVer0 = NoVersion
    /\ \E custom \in BOOLEAN :
        /\ k = Kust(custom)
        /\ \E opts \in ProcessOpts(custom) : in = Call(opts, custom)
    /\ fs = [files |-> NoFiles, comps |-> {}]
    /\ fs0 = fs
    /\ pc = "start"
    /\ commands = << >>
    /\ trace = <<CallEv(getBinaryPath(k))>>
    /\ ret = NoRet
    /\ exitAt = "none"
    /\ NoCallers
    /\ NoArgs
    /\ NoImages

\* the next Build call of the process, of any instance: semVer is what the
\* calls before left
NextCall ==
    /\ pc = "done"
    /\ Cardinality({i \in DOMAIN trace : trace[i].ev = "call"}) < MaxBuilds
    /\ \E custom \in BOOLEAN :
        /\ k' = Kust(custom)
        /\ \E opts \in ProcessOpts(custom) : in' = Call(opts, custom)
        /\ trace' = Append(trace, CallEv(getBinaryPath(Kust(custom))))
    /\ fs0' = fs
    /\ semVer0' = semVer
    /\ pc' = "start"
    /\ commands' = << >>
    /\ ret' = NoRet
    /\ exitAt' = "none"
    /\ UNCHANGED <<semVer, fs, notBuildVars>>

NextProcess ==
    \/ Start
    \/ SetNamePrefix
    \/ SetNameSuffix
    \/ SetImages
    \/ SetReplicas
    \/ AddCommonLabels
    \/ AddCommonAnnotations
    \/ SetNamespace
    \/ MergePatches
    \/ AddComponents
    \/ RunBuild
    \/ NextCall

SpecProcess == InitProcess /\ [][NextProcess]_vars

\* the start of the current call in the history
CurrentCall == CHOOSE i \in DOMAIN trace : trace[i].ev = "call" /\ \A j \in DOMAIN trace : j > i => trace[j].ev # "call"

\* the version-gated decisions the current call has made: the encoding of labels
\* and annotations, the acceptance of components, the Helm flags of the build
GatedDecisions ==
    {i \in DOMAIN trace :
        /\ i > CurrentCall
        /\ trace[i].ev = "exec"
        /\ \/ trace[i].step \in {"labels", "annotations", "components"}
           \/ /\ trace[i].step = "build"
              /\ ~in.buildOpts.isNil
              /\ ~in.kustomizeOptions.isNil
              /\ in.kustomizeOptions.BuildOptions # << >>}

\* the version in use before position i of the history was reported by `bin`:
\* the last version query before i ran that binary
ReportedBy(bin, i) ==
    \E j \in 1..(i - 1) :
        /\ trace[j].ev = "version"
        /\ trace[j].bin = bin
        /\ \A h \in (j + 1)..(i - 1) : trace[h].ev # "version"

\* C20 as claimed: every version-gated decision of a Build call uses the version
\* reported by the binary this call invokes, whatever calls of other instances
\* the process made before.
C20_OwnBinaryVersion ==
    /\ \A i \in GatedDecisions : ReportedBy(getBinaryPath(k), i)
    /\ ret.err = ComponentsErr => ReportedBy(getBinaryPath(k), Len(trace))

====
